---- MODULE Spec2Model ----
(***************************************************************************)
(* Model of cloudhsm.py: a command-line script that finds a CloudHSM       *)
(* cluster by tag, creates and tags one when none is found, and then       *)
(* creates or deletes HSM instances to reach a required count.             *)
(*                                                                         *)
(* The provider's control plane (the boto3 'cloudhsmv2' client) is the     *)
(* environment: its cluster table is the variable clusters, and every      *)
(* remote call of the script is one atomic step of a run.  The script is   *)
(* Python 2 (xrange, line 91): an int never equals a str, an int is always *)
(* smaller than a str, and xrange of a str raises TypeError.               *)
(***************************************************************************)
EXTENDS Integers, Sequences, FiniteSets, TLC

\* ---------------------------------------------------------------- bounds
MaxClusters == 2      \* clusters in the provider's listing at the start
MaxTags     == 2      \* tags on one cluster at the start
MaxHsms     == 2      \* HSM instances in one cluster at the start
MaxTarget   == 2      \* largest required HSM count given to a run
NumRuns     == 2      \* invocations of the script in one behaviour
MaxFaults   == 1      \* remote calls the provider fails in one behaviour

\* ------------------------------------------------------ program constants
ClusterPollLimit == 20
HsmPollLimit     == 15

None == -1            \* Python's None, and a local not assigned yet

Runs == 1..NumRuns

\* The tag the runs search for, and the other tags a cluster may carry: the
\* same key with another value, and the same value under another key.
cluster_tag_key   == "k1"
cluster_tag_value == "v1"
TagPairs == {<<"k1", "v1">>, <<"k1", "v2">>, <<"k2", "v1">>}

VARIABLES
    clusters,           \* provider: cluster records, in listing order
    nextHsmId,          \* provider: id given to the next created HSM
    mode,               \* "cli": create_cluster is run from the command line
                        \* "direct": set_cluster_hsm_count is called with an int
    cluster_hsm_count,  \* the required count: [t |-> "str" or "int", v |-> ..]
    azDefined,          \* whether a module global cluster_az is bound
    pc,                 \* run -> position in the script
    err,                \* run -> "none" or the exception that ended the run
    cluster_id,         \* run -> cluster_id of create_cluster / the argument
    created_id,         \* run -> cluster_id local to init_cluster
    response,           \* run -> ids listed by the describe_clusters call of
                        \* line 207, then of line 76
    i,                  \* run -> loop index
    limit_counter,      \* run -> limit_counter of the current poll loop
    hsm_id,             \* run -> hsm_id of the create / delete loop
    current_hsm_count,  \* run -> len of the HSM listing read at line 77
    check,              \* run -> result of the last test of a poll loop
    calls,              \* run -> the changing remote calls issued, in order
    listTagsCalls,      \* run -> number of list_tags calls issued
    out                 \* run -> the lines printed (waiting lines left out)
                        \* each as <<kind of line, the id it names>>

remote == <<clusters, nextHsmId>>
args   == <<mode, cluster_hsm_count, azDefined>>
locals == <<cluster_id, created_id, response, i, limit_counter, hsm_id,
            current_hsm_count, check>>
trace  == <<calls, listTagsCalls, out>>
vars   == <<remote, args, pc, err, locals, trace>>


\* ------------------------------------------------------- Python 2 values
\* click hands every argument over as the text typed on the command line
\* (lines 177-183 declare no type); a direct caller passes an int.
DigitStr == <<"0", "1", "2", "3", "4", "5", "6", "7", "8", "9">>

StrArg(n) == [t |-> "str", v |-> DigitStr[n + 1]]

IntArg(n) == [t |-> "int", v |-> n]

\* The number a required count stands for (what the user asked for).
NumOf(a) == IF a.t = "int" THEN a.v
            ELSE CHOOSE n \in 0..9 : DigitStr[n + 1] = a.v

\* current_hsm_count == cluster_hsm_count: an int never equals a str.
PyEq(n, a) == a.t = "int" /\ a.v = n

\* current_hsm_count < cluster_hsm_count: an int is smaller than any str.
PyLt(n, a) == IF a.t = "int" THEN n < a.v ELSE TRUE

\* current_hsm_count > cluster_hsm_count
PyGt(n, a) == IF a.t = "int" THEN n > a.v ELSE FALSE

\* xrange(cluster_hsm_count) accepts an int only.
XrangeOk(a) == a.t = "int"

\* Truthy taking every result but False for true.
TruthyUnlessFalse(r) == r # "False"

\* A result of check_*_state used as a condition: None is false.
Truthy(r) == r = "True"

\* ------------------------------------------------------------- provider
Last(s) == s[Len(s)]

Ids(seq) == {seq[j].ClusterId : j \in 1..Len(seq)}

Pos(cid) == CHOOSE j \in 1..Len(clusters) : clusters[j].ClusterId = cid

Known(cid) == cid \in Ids(clusters)

Cluster(cid) == clusters[Pos(cid)]

HsmIds(c) == {c.Hsms[j].HsmId : j \in 1..Len(c.Hsms)}

RECURSIVE Without(_, _)
Without(hs, hid) ==
    IF hs = <<>> THEN <<>>
    ELSE IF hs[1].HsmId = hid THEN Without(Tail(hs), hid)
    ELSE <<hs[1]>> \o Without(Tail(hs), hid)

SetHsmState(hs, hid, st) ==
    [j \in 1..Len(hs) |->
        IF hs[j].HsmId = hid THEN [hs[j] EXCEPT !.State = st] ELSE hs[j]]

\* ------------------------------------------------------ pure functions
\* TagMatch looking at the first tag of the list only.
TagMatchFirstOnly(tags, key, value) ==
    tags # <<>> /\ tags[1][1] = key /\ tags[1][2] = value

\* TagMatch comparing the key only.
TagMatchKeyOnly(tags, key, value) ==
    \E j \in 1..Len(tags) : tags[j][1] = key

\* TagMatch comparing the value only.
TagMatchValueOnly(tags, key, value) ==
    \E j \in 1..Len(tags) : tags[j][2] = value

\* Lines 212-215: does the tag list hold the key/value pair.
TagMatch(tags, key, value) ==
    \E j \in 1..Len(tags) : tags[j][1] = key /\ tags[j][2] = value

\* check_cluster_state reporting a match whatever the state is.
check_cluster_state_always(c, state) == "True"

\* check_cluster_state with the comparison inverted.
check_cluster_state_inverted(c, state) ==
    IF c.State # state THEN "True" ELSE "False"

\* Lines 8-29, on the cluster record the describe call returned.
check_cluster_state(c, state) == IF c.State = state THEN "True" ELSE "False"

\* check_hsm_state reporting a match as soon as the id is listed.
check_hsm_state_listed(hs, hid, state) ==
    IF \E j \in 1..Len(hs) : hs[j].HsmId = hid THEN "True" ELSE "None"

\* check_hsm_state reading the first listed HSM without comparing its id.
check_hsm_state_first(hs, hid, state) ==
    IF hs = <<>> THEN "None"
    ELSE IF hs[1].State = state THEN "True" ELSE "False"

\* Lines 32-56: the first listed HSM with the id decides; the function
\* falls off its end, returning None, when the id is not listed.
RECURSIVE check_hsm_state(_, _, _)
check_hsm_state(hs, hid, state) ==
    IF hs = <<>> THEN "None"
    ELSE IF hs[1].HsmId = hid
         THEN (IF hs[1].State = state THEN "True" ELSE "False")
         ELSE check_hsm_state(Tail(hs), hid, state)

\* HsmCount counting the ACTIVE instances only.
HsmCountActive(hs) ==
    Cardinality({j \in 1..Len(hs) : hs[j].State = "ACTIVE"})

\* Line 77: the instances of the described cluster are counted, whatever
\* their state.
HsmCount(hs) == Len(hs)

\* Lines 87-116, from the test of line 87 to the first remote call of the
\* branch taken: the line printed, and where the run goes next.
Dispatch(cur, a) ==
    IF PyLt(cur, a)
    THEN IF ~XrangeOk(a)
         THEN [msg |-> "lower", pc |-> "fault", err |-> "TypeError"]
         ELSE IF a.v > 0
              THEN [msg |-> "lower", pc |-> "create_hsm", err |-> "none"]
              ELSE [msg |-> "lower", pc |-> "done", err |-> "none"]
    ELSE IF PyGt(cur, a)
    THEN IF cur - a.v > 0
         THEN [msg |-> "higher", pc |-> "delete_hsm", err |-> "none"]
         ELSE [msg |-> "higher", pc |-> "done", err |-> "none"]
    ELSE [msg |-> "", pc |-> "done", err |-> "none"]

\* ------------------------------------------------------------------ Init
TagLists ==
    {s \in UNION {[1..n -> TagPairs] : n \in 0..MaxTags} :
        \A j, k \in 1..Len(s) : j # k => s[j] # s[k]}

\* n instances of cluster k, ACTIVE except that the last is in state st.
HsmList(k, n, st) ==
    [j \in 1..n |->
        [HsmId |-> (k - 1) * MaxHsms + j,
         State |-> IF j = n THEN st ELSE "ACTIVE"]]

\* The tag list holds the searched key/value pair.
Carries(tags) ==
    <<cluster_tag_key, cluster_tag_value>> \in {tags[j] : j \in 1..Len(tags)}

\* The first cluster of a listing that carries the searched tag, 0 if none.
FirstTagged(tg) ==
    IF \E k \in 1..Len(tg) : Carries(tg[k])
    THEN CHOOSE k \in 1..Len(tg) :
            Carries(tg[k]) /\ \A j \in 1..(k - 1) : ~Carries(tg[j])
    ELSE 0

\* The tag lists of a listing of len clusters.  A run never asks for the
\* tags of a cluster listed after the first tagged one: such a cluster has
\* no tag or just the searched one.
TagListings(len) ==
    {tg \in [1..len -> TagLists] :
        \A k \in 1..len :
            FirstTagged(tg) \in 1..(k - 1)
                => tg[k] \in {<<>>, <<<<cluster_tag_key, cluster_tag_value>>>>}}

\* A listing of Len(tg) clusters with the tag lists tg.  Cluster f is in
\* state s with n instances, the last of them in state st; a run reads the
\* state and the instances of one cluster only, so the others are ACTIVE
\* and hold none.
Listing(tg, f, s, n, st) ==
    [k \in 1..Len(tg) |->
        [ClusterId |-> k,
         State |-> IF k = f THEN s ELSE "ACTIVE",
         Tags |-> tg[k],
         Hsms |-> HsmList(k, IF k = f THEN n ELSE 0, st)]]

\* The command line gives the count as text and binds no global cluster_az.
\* Discovery does not read the count: it is varied where the listing is one
\* cluster carrying just the searched tag, and is "1" with other listings.
\* A direct caller of set_cluster_hsm_count gives an int, names one of the
\* clusters, may have bound the global, and may find the newest instance
\* still being created.
Init ==
    /\ \E len \in 0..MaxClusters, s \in {"UNINITIALIZED", "ACTIVE"},
          n \in 0..MaxHsms, m \in 0..MaxTarget :
          \/ /\ mode = "cli"
             /\ azDefined = FALSE
             /\ \E tg \in TagListings(len) :
                   /\ clusters = Listing(tg, FirstTagged(tg), s, n, "ACTIVE")
                   /\ m = 1 \/ tg = <<<<<<cluster_tag_key, cluster_tag_value>>>>>>
             /\ cluster_hsm_count = StrArg(m)
          \/ /\ mode = "direct"
             /\ azDefined \in BOOLEAN
             /\ \E f \in 1..len, st \in {"ACTIVE", "CREATE_IN_PROGRESS"} :
                   clusters = Listing([k \in 1..len |-> <<>>], f, s, n, st)
             /\ cluster_hsm_count = IntArg(m)
    /\ nextHsmId = MaxClusters * MaxHsms + 1
    /\ pc = [p \in Runs |-> "idle"]
    /\ err = [p \in Runs |-> "none"]
    /\ cluster_id = [p \in Runs |-> None]
    /\ created_id = [p \in Runs |-> None]
    /\ response = [p \in Runs |-> <<>>]
    /\ i = [p \in Runs |-> 0]
    /\ limit_counter = [p \in Runs |-> 0]
    /\ hsm_id = [p \in Runs |-> None]
    /\ current_hsm_count = [p \in Runs |-> None]
    /\ check = [p \in Runs |-> "None"]
    /\ calls = [p \in Runs |-> <<>>]
    /\ listTagsCalls = [p \in Runs |-> 0]
    /\ out = [p \in Runs |-> <<>>]

\* --------------------------------------------------------------- helpers
Call(op, cid, hid) == [op |-> op, cluster |-> cid, hsm |-> hid]

Line(msg, id) == <<msg, id>>

\* Raise with the exception caught and passed over: the run goes on.
RaiseCaught(p, e) ==
    /\ pc' = pc
    /\ err' = [err EXCEPT ![p] = e]

\* The run p ends with the exception e.
Raise(p, e) ==
    /\ pc' = [pc EXCEPT ![p] = "fault"]
    /\ err' = [err EXCEPT ![p] = e]

\* The argument create_cluster passes to set_cluster_tags (line 229): its
\* own cluster_id, which init_cluster (no return value, lines 157-174) has
\* left as it was.
TagTarget(p) == cluster_id[p]

\* What tag_resource does to a tag list: the key is set to the value.
RECURSIVE PutTag(_, _, _)
PutTag(tags, key, value) ==
    IF tags = <<>> THEN <<<<key, value>>>>
    ELSE IF tags[1][1] = key THEN <<<<key, value>>>> \o Tail(tags)
    ELSE <<tags[1]>> \o PutTag(Tail(tags), key, value)

\* ------------------------------------------------------------ the script
\* A run begins.  The command line is run again and again, a run starting
\* when the runs before it have ended: create_cluster is entered and, before
\* its first remote call, prints the 'Checking clusters list' line (lines
\* 201-206).  A direct call is made once, names any existing cluster, and
\* prints nothing before its first call.
Start(p) ==
    /\ pc[p] = "idle"
    /\ \A q \in Runs : q < p => pc[q] \in {"done", "fault"}
    /\ \/ /\ mode = "cli"
          /\ pc' = [pc EXCEPT ![p] = "describe"]
          /\ out' = [out EXCEPT ![p] = Append(@, Line("checking", None))]
          /\ UNCHANGED cluster_id
       \/ /\ mode = "direct"
          /\ p = 1
          /\ \E c \in Ids(clusters) : cluster_id' = [cluster_id EXCEPT ![p] = c]
          /\ pc' = [pc EXCEPT ![p] = "hsm_describe"]
          /\ UNCHANGED out
    /\ UNCHANGED <<remote, args, err, created_id, response, i, limit_counter,
                   hsm_id, current_hsm_count, check, calls, listTagsCalls>>

\* create_cluster, lines 207-209 (and 224-225 for an empty listing): the
\* cluster listing is read.
create_cluster_describe(p) ==
    /\ pc[p] = "describe"
    /\ response' = [response EXCEPT ![p] =
                       [j \in 1..Len(clusters) |-> clusters[j].ClusterId]]
    /\ i' = [i EXCEPT ![p] = 1]
    /\ IF clusters = <<>>
       THEN /\ pc' = [pc EXCEPT ![p] = "init_create"]
            /\ out' = [out EXCEPT ![p] = Append(@, Line("not_found", None))]
       ELSE /\ pc' = [pc EXCEPT ![p] = "list_tags"]
            /\ UNCHANGED out
    /\ UNCHANGED <<remote, args, err, cluster_id, created_id, limit_counter,
                   hsm_id, current_hsm_count, check, calls, listTagsCalls>>

\* create_cluster_list_tags without the test and break of lines 219-221:
\* the loop goes on over the whole listing after a match.
create_cluster_list_tags_no_break(p) ==
    /\ pc[p] = "list_tags"
    /\ LET cid == response[p][i[p]]
           found == IF TagMatch(Cluster(cid).Tags, cluster_tag_key,
                                cluster_tag_value)
                    THEN cid ELSE cluster_id[p]
       IN
       /\ listTagsCalls' = [listTagsCalls EXCEPT ![p] = @ + 1]
       /\ cluster_id' = [cluster_id EXCEPT ![p] = found]
       /\ IF i[p] < Len(response[p])
          THEN /\ i' = [i EXCEPT ![p] = @ + 1]
               /\ UNCHANGED <<out, pc>>
          ELSE IF found # None
          THEN /\ pc' = [pc EXCEPT ![p] = "hsm_describe"]
               /\ UNCHANGED <<out, i>>
          ELSE /\ out' = [out EXCEPT ![p] = Append(@, Line("not_found", None))]
               /\ pc' = [pc EXCEPT ![p] = "init_create"]
               /\ UNCHANGED i
    /\ UNCHANGED <<remote, args, err, created_id, response, limit_counter,
                   hsm_id, current_hsm_count, check, calls>>

\* create_cluster, lines 209-225: one pass of the loop over the listing.
create_cluster_list_tags(p) ==
    /\ pc[p] = "list_tags"
    /\ LET cid == response[p][i[p]] IN
       /\ listTagsCalls' = [listTagsCalls EXCEPT ![p] = @ + 1]
       /\ IF TagMatch(Cluster(cid).Tags, cluster_tag_key, cluster_tag_value)
          THEN /\ cluster_id' = [cluster_id EXCEPT ![p] = cid]
               /\ out' = [out EXCEPT ![p] = Append(@, Line("found", cid))]
               /\ pc' = [pc EXCEPT ![p] = "hsm_describe"]
               /\ UNCHANGED i
          ELSE IF i[p] < Len(response[p])
          THEN /\ i' = [i EXCEPT ![p] = @ + 1]
               /\ UNCHANGED <<cluster_id, out, pc>>
          ELSE /\ out' = [out EXCEPT ![p] = Append(@, Line("not_found", None))]
               /\ pc' = [pc EXCEPT ![p] = "init_create"]
               /\ UNCHANGED <<cluster_id, i>>
    /\ UNCHANGED <<remote, args, err, created_id, response, limit_counter,
                   hsm_id, current_hsm_count, check, calls>>

\* init_cluster, lines 161-167: the cluster is created.
init_cluster_create(p) ==
    /\ pc[p] = "init_create"
    /\ LET new == Len(clusters) + 1 IN
       /\ clusters' = Append(clusters,
              [ClusterId |-> new, State |-> "CREATE_IN_PROGRESS",
               Tags |-> <<>>, Hsms |-> <<>>])
       /\ created_id' = [created_id EXCEPT ![p] = new]
       /\ calls' = [calls EXCEPT ![p] =
                       Append(@, Call("create_cluster", new, None))]
       /\ out' = [out EXCEPT ![p] = Append(@, Line("created_cluster", new))]
    /\ limit_counter' = [limit_counter EXCEPT ![p] = 0]
    /\ pc' = [pc EXCEPT ![p] = "poll_cluster"]
    /\ UNCHANGED <<nextHsmId, args, err, cluster_id, response, i, hsm_id,
                   current_hsm_count, check, listTagsCalls>>

\* init_cluster, lines 168-174: one test of the while condition, then
\* either one wait or the end of the loop.
init_cluster_poll(p) ==
    /\ pc[p] = "poll_cluster"
    /\ LET r == check_cluster_state(Cluster(created_id[p]), "UNINITIALIZED") IN
       /\ check' = [check EXCEPT ![p] = r]
       /\ IF ~Truthy(r) /\ limit_counter[p] < ClusterPollLimit
          THEN /\ limit_counter' = [limit_counter EXCEPT ![p] = @ + 1]
               /\ UNCHANGED <<pc, out>>
          ELSE /\ out' = [out EXCEPT ![p] =
                             Append(@, Line("cluster_ready", created_id[p]))]
               /\ pc' = [pc EXCEPT ![p] = "tag"]
               /\ limit_counter' = [limit_counter EXCEPT ![p] = 0]
    /\ UNCHANGED <<remote, args, err, cluster_id, created_id, response, i,
                   hsm_id, current_hsm_count, calls, listTagsCalls>>

\* set_cluster_tags, lines 135-143, as called at line 229.  The provider
\* refuses a resource id it does not know.
set_cluster_tags(p) ==
    /\ pc[p] = "tag"
    /\ LET cid == TagTarget(p) IN
       /\ calls' = [calls EXCEPT ![p] =
                       Append(@, Call("tag_resource", cid, None))]
       /\ IF Known(cid)
          THEN /\ clusters' = [clusters EXCEPT ![Pos(cid)].Tags =
                      PutTag(@, cluster_tag_key, cluster_tag_value)]
               /\ out' = [out EXCEPT ![p] = Append(@, Line("tagged", cid))]
               /\ pc' = [pc EXCEPT ![p] = "hsm_describe"]
               /\ UNCHANGED err
          ELSE /\ Raise(p, "NotFound")
               /\ UNCHANGED <<clusters, out>>
    /\ check' = [check EXCEPT ![p] = "None"]
    /\ UNCHANGED <<nextHsmId, args, cluster_id, created_id, response, i,
                   limit_counter, hsm_id, current_hsm_count, listTagsCalls>>

\* Lines 87-91 and 107-112 for run p with cur instances listed: the branch
\* is chosen and its loop entered.
Branch(p, cur) ==
    LET d == Dispatch(cur, cluster_hsm_count) IN
    /\ pc' = [pc EXCEPT ![p] = d.pc]
    /\ err' = [err EXCEPT ![p] = d.err]
    /\ out' = [out EXCEPT ![p] =
                  IF d.msg = "" THEN @ ELSE Append(@, Line(d.msg, cluster_id[p]))]
    /\ i' = [i EXCEPT ![p] = 0]

\* set_cluster_hsm_count, lines 75-81: the cluster is described, its
\* instances counted, and the count compared with the required one.
set_cluster_hsm_count_describe(p) ==
    /\ pc[p] = "hsm_describe"
    /\ IF ~Known(cluster_id[p])
       THEN /\ Raise(p, "NotFound")
            /\ UNCHANGED <<response, current_hsm_count, i, out>>
       ELSE LET hs == Cluster(cluster_id[p]).Hsms
                cur == HsmCount(hs)
            IN
            /\ response' = [response EXCEPT ![p] =
                               [j \in 1..Len(hs) |-> hs[j].HsmId]]
            /\ current_hsm_count' = [current_hsm_count EXCEPT ![p] = cur]
            /\ IF PyEq(cur, cluster_hsm_count)
               THEN /\ out' = [out EXCEPT ![p] =
                                  Append(@, Line("no_new", cluster_id[p]))]
                    /\ pc' = [pc EXCEPT ![p] = "done"]
                    /\ UNCHANGED <<err, i>>
               ELSE IF cur = 1
               THEN /\ pc' = [pc EXCEPT ![p] = "check_uninit"]
                    /\ UNCHANGED <<err, i, out>>
               ELSE Branch(p, cur)
    /\ UNCHANGED <<remote, args, cluster_id, created_id, limit_counter,
                   hsm_id, check, calls, listTagsCalls>>

\* set_cluster_hsm_count, lines 83-85: with one instance listed the
\* cluster state is read; an UNINITIALIZED cluster is left alone.
set_cluster_hsm_count_check(p) ==
    /\ pc[p] = "check_uninit"
    /\ LET r == check_cluster_state(Cluster(cluster_id[p]), "UNINITIALIZED") IN
       /\ IF Truthy(r)
          THEN /\ out' = [out EXCEPT ![p] =
                             Append(@, Line("must_init", cluster_id[p]))]
               /\ pc' = [pc EXCEPT ![p] = "done"]
               /\ UNCHANGED <<err, i>>
          ELSE Branch(p, current_hsm_count[p])
    /\ UNCHANGED <<remote, args, cluster_id, created_id, response,
                   limit_counter, hsm_id, current_hsm_count, check, calls,
                   listTagsCalls>>

\* set_cluster_hsm_count, lines 92-98: one instance is created.  The
\* name cluster_az is looked up among the module globals; the script binds
\* none, so the lookup raises NameError unless the caller has bound one.
\* (Line 92 rebinds response, which this branch never reads again: the
\* variable keeps the listing of line 76.)
set_cluster_hsm_count_create(p) ==
    /\ pc[p] = "create_hsm"
    /\ IF ~azDefined
       THEN /\ Raise(p, "NameError")
            /\ UNCHANGED <<remote, hsm_id, limit_counter, calls, out>>
       ELSE LET cid == cluster_id[p]
                new == nextHsmId
            IN
            /\ clusters' = [clusters EXCEPT ![Pos(cid)].Hsms =
                   Append(@, [HsmId |-> new, State |-> "CREATE_IN_PROGRESS"])]
            /\ nextHsmId' = nextHsmId + 1
            /\ hsm_id' = [hsm_id EXCEPT ![p] = new]
            /\ calls' = [calls EXCEPT ![p] =
                            Append(@, Call("create_hsm", cid, new))]
            /\ out' = [out EXCEPT ![p] = Append(@, Line("creating_hsm", new))]
            /\ limit_counter' = [limit_counter EXCEPT ![p] = 0]
            /\ pc' = [pc EXCEPT ![p] = "poll_hsm"]
            /\ UNCHANGED err
    /\ UNCHANGED <<args, cluster_id, created_id, response, i,
                   current_hsm_count, check, listTagsCalls>>

\* set_cluster_hsm_count, lines 99-105 and the loop head of line 91: one
\* test of the while condition, then one wait or the end of the loop.
set_cluster_hsm_count_poll(p) ==
    /\ pc[p] = "poll_hsm"
    /\ LET r == check_hsm_state(Cluster(cluster_id[p]).Hsms, hsm_id[p],
                                "ACTIVE")
       IN
       /\ IF ~Truthy(r) /\ limit_counter[p] < HsmPollLimit
          THEN /\ limit_counter' = [limit_counter EXCEPT ![p] = @ + 1]
               /\ check' = [check EXCEPT ![p] = r]
               /\ UNCHANGED <<pc, out, i>>
          ELSE /\ out' = [out EXCEPT ![p] =
                             Append(@, Line("hsm_ready", hsm_id[p]))]
               /\ i' = [i EXCEPT ![p] = @ + 1]
               /\ pc' = [pc EXCEPT ![p] =
                            IF i[p] + 1 < cluster_hsm_count.v
                            THEN "create_hsm" ELSE "done"]
               /\ check' = [check EXCEPT ![p] =
                               IF i[p] + 1 < cluster_hsm_count.v
                               THEN r ELSE "None"]
               /\ limit_counter' = [limit_counter EXCEPT ![p] = 0]
    /\ UNCHANGED <<remote, args, err, cluster_id, created_id, response,
                   hsm_id, current_hsm_count, calls, listTagsCalls>>

\* Victim taking the instances from the end of the listing.
VictimFromEnd(p) == response[p][Len(response[p]) - i[p]]

\* Line 113: the instance deleted in pass i of the loop is entry i of the
\* listing read at line 76 (Python counts from 0, a sequence from 1).
Victim(p) == response[p][i[p] + 1]

\* set_cluster_hsm_count, lines 112-116: the i-th instance of the listing
\* read at line 76 is deleted.  The provider refuses an instance id the
\* cluster does not hold.
set_cluster_hsm_count_delete(p) ==
    /\ pc[p] = "delete_hsm"
    /\ LET cid == cluster_id[p]
           hid == Victim(p)
       IN
       /\ hsm_id' = [hsm_id EXCEPT ![p] = hid]
       /\ calls' = [calls EXCEPT ![p] = Append(@, Call("delete_hsm", cid, hid))]
       /\ IF hid \notin HsmIds(Cluster(cid))
          THEN /\ Raise(p, "NotFound")
               /\ UNCHANGED <<clusters, out, i>>
          ELSE /\ clusters' = [clusters EXCEPT ![Pos(cid)].Hsms =
                      SetHsmState(@, hid, "DELETE_IN_PROGRESS")]
               /\ out' = [out EXCEPT ![p] = Append(@, Line("deleting_hsm", hid))]
               /\ i' = [i EXCEPT ![p] = @ + 1]
               /\ pc' = [pc EXCEPT ![p] =
                      IF i[p] + 1 < current_hsm_count[p] - cluster_hsm_count.v
                      THEN "delete_hsm" ELSE "done"]
               /\ UNCHANGED err
    /\ UNCHANGED <<nextHsmId, args, cluster_id, created_id, response,
                   limit_counter, current_hsm_count, check, listTagsCalls>>

\* Any remote call may fail; the exception is not caught anywhere, so the
\* run ends at the call and the frame of the poll loop is gone.
RemoteCallNext(p) ==
    \/ pc[p] \in {"describe", "list_tags", "init_create", "poll_cluster",
                  "tag", "hsm_describe", "check_uninit", "poll_hsm",
                  "delete_hsm"}
    \/ pc[p] = "create_hsm" /\ azDefined

ApiFault(p) ==
    /\ RemoteCallNext(p)
    /\ Cardinality({q \in Runs : err[q] = "ApiFault"}) < MaxFaults
    /\ Raise(p, "ApiFault")
    /\ limit_counter' = [limit_counter EXCEPT ![p] = 0]
    /\ check' = [check EXCEPT ![p] = "None"]
    /\ UNCHANGED <<remote, args, cluster_id, created_id, response, i, hsm_id,
                   current_hsm_count, trace>>

\* ---------------------------------------------------------- the provider
\* A cluster being created becomes UNINITIALIZED.
ClusterCreated(c) ==
    /\ Known(c)
    /\ Cluster(c).State = "CREATE_IN_PROGRESS"
    /\ clusters' = [clusters EXCEPT ![Pos(c)].State = "UNINITIALIZED"]
    /\ UNCHANGED <<nextHsmId, args, pc, err, locals, trace>>

\* An instance being created becomes ACTIVE.
HsmCreated(c, h) ==
    /\ Known(c)
    /\ \E j \in 1..Len(Cluster(c).Hsms) :
          /\ Cluster(c).Hsms[j].HsmId = h
          /\ Cluster(c).Hsms[j].State = "CREATE_IN_PROGRESS"
    /\ clusters' = [clusters EXCEPT ![Pos(c)].Hsms = SetHsmState(@, h, "ACTIVE")]
    /\ UNCHANGED <<nextHsmId, args, pc, err, locals, trace>>

\* An instance being deleted leaves the cluster's listing.
HsmDeleted(c, h) ==
    /\ Known(c)
    /\ \E j \in 1..Len(Cluster(c).Hsms) :
          /\ Cluster(c).Hsms[j].HsmId = h
          /\ Cluster(c).Hsms[j].State = "DELETE_IN_PROGRESS"
    /\ clusters' = [clusters EXCEPT ![Pos(c)].Hsms = Without(@, h)]
    /\ UNCHANGED <<nextHsmId, args, pc, err, locals, trace>>

AllHsmIds == UNION {HsmIds(clusters[j]) : j \in 1..Len(clusters)}

Next ==
    \/ \E p \in Runs : Start(p)
    \/ \E p \in Runs : create_cluster_describe(p)
    \/ \E p \in Runs : create_cluster_list_tags(p)
    \/ \E p \in Runs : init_cluster_create(p)
    \/ \E p \in Runs : init_cluster_poll(p)
    \/ \E p \in Runs : set_cluster_tags(p)
    \/ \E p \in Runs : set_cluster_hsm_count_describe(p)
    \/ \E p \in Runs : set_cluster_hsm_count_check(p)
    \/ \E p \in Runs : set_cluster_hsm_count_create(p)
    \/ \E p \in Runs : set_cluster_hsm_count_poll(p)
    \/ \E p \in Runs : set_cluster_hsm_count_delete(p)
    \/ \E c \in Ids(clusters) : ClusterCreated(c)
    \/ \E c \in Ids(clusters) : \E h \in AllHsmIds : HsmCreated(c, h)
    \/ \E c \in Ids(clusters) : \E h \in AllHsmIds : HsmDeleted(c, h)

\* The script against a provider that answers every call.
Spec == Init /\ [][Next]_vars

\* The positions, in the provider's listing, of the clusters that carry
\* the searched tag.
TaggedSet == {k \in 1..Len(clusters) : Carries(clusters[k].Tags)}

\* The pairs on the cluster at position k.
TagsAt(k) == {clusters[k].Tags[j] : j \in 1..Len(clusters[k].Tags)}

\* Listings in which the first cluster may carry the searched key with
\* another value, and every cluster carries the searched pair or no tag.
FewTags ==
    \A k \in 1..Len(clusters) :
        \/ clusters[k].Tags \in {<<>>, <<<<cluster_tag_key, cluster_tag_value>>>>}
        \/ k = 1 /\ clusters[k].Tags = <<<<"k1", "v2">>>>

\* The script against a provider that may fail any call.
NextFault == Next \/ \E p \in Runs : ApiFault(p)

InitFault == Init /\ FewTags

SpecFault == InitFault /\ [][NextFault]_vars

\* ================================================================ claims
CountOp(p, op) ==
    Cardinality({k \in 1..Len(calls[p]) : calls[p][k].op = op})

\* The run has read the HSM listing of its cluster (line 76).
Listed(p) == current_hsm_count[p] # None

\* The last line the run printed.
LastMsg(p) == IF out[p] = <<>> THEN "" ELSE Last(out[p])[1]

Target == NumOf(cluster_hsm_count)

\* C1: a reconciliation that finds as many instances listed as required
\* issues no create-HSM and no delete-HSM call, whether the count came from
\* the command line (text) or from a direct caller (int).
C1_NoHsmCallWhenCountEqual ==
    \A p \in Runs :
        Listed(p) /\ Len(response[p]) = Target
            => CountOp(p, "create_hsm") = 0 /\ CountOp(p, "delete_hsm") = 0

\* C1 witness: a command-line run has ended after listing two instances
\* with a required count of "2".
C1_Witness ==
    \E p \in Runs :
        /\ mode = "cli" /\ pc[p] \in {"done", "fault"}
        /\ Listed(p) /\ Len(response[p]) = 2 /\ Target = 2
        /\ err[p] # "ApiFault"

\* C2: a completed scale-up that was not refused has issued exactly
\* target - current create-HSM calls.
C2_CreatesTargetMinusCurrent ==
    \A p \in Runs :
        /\ pc[p] = "done" /\ Listed(p)
        /\ Len(response[p]) < Target
        /\ LastMsg(p) # "must_init"
        => CountOp(p, "create_hsm") = Target - Len(response[p])

\* C3: a completed reconciliation that listed more instances than required
\* has issued exactly current - target delete-HSM calls and no create-HSM
\* call, whatever the state of the cluster.
C3_DeletesCurrentMinusTarget ==
    \A p \in Runs :
        pc[p] = "done" /\ Listed(p) /\ Len(response[p]) > Target
            => /\ CountOp(p, "delete_hsm") = Len(response[p]) - Target
               /\ CountOp(p, "create_hsm") = 0

\* C4: when one instance is listed, more than one is required and the
\* state read at line 83 is UNINITIALIZED, the reconciliation prints the
\* 'must be initialised first' line and returns, having issued no
\* create-HSM and no delete-HSM call.
C4_MustInitializeFirst ==
    [][\A p \in Runs :
          /\ pc[p] = "check_uninit" /\ pc'[p] # "check_uninit"
          /\ err'[p] # "ApiFault"
          /\ Cluster(cluster_id[p]).State = "UNINITIALIZED"
          /\ Len(response[p]) = 1 /\ Target > 1
          => /\ pc'[p] = "done"
             /\ LastMsg(p)' = "must_init"
             /\ CountOp(p, "create_hsm")' = 0
             /\ CountOp(p, "delete_hsm")' = 0]_vars

\* C4 witness: a run has returned on the 'must be initialised first' path
\* from a cluster listing one instance, with more than one required.
C4_Witness ==
    \E p \in Runs :
        /\ pc[p] = "done" /\ LastMsg(p) = "must_init"
        /\ Len(response[p]) = 1 /\ Target > 1
        /\ Cluster(cluster_id[p]).State = "UNINITIALIZED"

\* C5: when no listed cluster carries the searched key/value pair, the
\* discovery of a command-line run ends with 'not found' (the first line
\* printed after the 'Checking' line) and cluster_id None, the run goes on
\* to create a cluster, and it issues one create-cluster call, never a
\* second one.
C5_AbsentTagCreatesCluster ==
    \A p \in Runs :
        mode = "cli" /\ TaggedSet = {}
        => /\ cluster_id[p] = None
           /\ out[p] # <<>> => out[p][1] = Line("checking", None)
           /\ Len(out[p]) >= 2 => out[p][2] = Line("not_found", None)
           /\ pc[p] \in {"idle", "describe", "list_tags", "init_create",
                         "poll_cluster", "tag", "fault"}
           /\ pc[p] = "init_create" => CountOp(p, "create_cluster") = 0
           /\ pc[p] \in {"poll_cluster", "tag"}
                 => CountOp(p, "create_cluster") = 1
           /\ CountOp(p, "create_cluster") <= 1

\* C5 witness: a run has created a cluster and ended its poll loop, where
\* one listed cluster carries the key with another value and one carries
\* the value under another key.
C5_Witness ==
    \E p \in Runs :
        /\ mode = "cli" /\ pc[p] = "tag" /\ TaggedSet = {}
        /\ \E k \in 1..Len(clusters) : <<"k1", "v2">> \in TagsAt(k)
        /\ \E k \in 1..Len(clusters) : <<"k2", "v1">> \in TagsAt(k)

\* C6: when exactly one listed cluster carries the searched pair, the
\* discovery of a command-line run yields that cluster's id, wherever the
\* cluster is in the listing and the pair in its tag list; the run issues
\* no create-cluster call, and the HSM listing it reads is that cluster's.
C6_SingleTaggedClusterFound ==
    \A p \in Runs :
        mode = "cli" /\ Cardinality(TaggedSet) = 1 /\ Len(out[p]) >= 2
        => LET c == clusters[CHOOSE k \in TaggedSet : TRUE] IN
           /\ out[p][1] = Line("checking", None)
           /\ out[p][2] = Line("found", c.ClusterId)
           /\ cluster_id[p] = c.ClusterId
           /\ CountOp(p, "create_cluster") = 0
           /\ \A k \in 1..Len(calls[p]) : calls[p][k].cluster = c.ClusterId
           /\ Listed(p) => response[p] =
                              [j \in 1..Len(c.Hsms) |-> c.Hsms[j].HsmId]

\* C6 witness: a run has read the HSM listing of the only tagged cluster,
\* which is second in the listing and carries the pair as its second tag,
\* after a first cluster carrying the key with another value.
C6_Witness ==
    \E p \in Runs :
        /\ mode = "cli" /\ Listed(p) /\ err[p] # "ApiFault"
        /\ TaggedSet = {2}
        /\ Len(clusters[2].Tags) = 2
        /\ clusters[2].Tags[2] = <<cluster_tag_key, cluster_tag_value>>
        /\ <<"k1", "v2">> \in TagsAt(1)
        /\ Len(response[p]) >= 1

\* C7: the tag call of a run is addressed to the cluster its own
\* create-cluster call returned, and so is the reconciliation after it.
C7_TagAddressedToCreatedCluster ==
    \A p \in Runs : \A k \in 1..Len(calls[p]) :
        calls[p][k].op = "tag_resource"
        => /\ \E j \in 1..(k - 1) :
                 /\ calls[p][j].op = "create_cluster"
                 /\ calls[p][j].cluster = calls[p][k].cluster
           /\ cluster_id[p] = calls[p][k].cluster

\* C8: once a run that found no tagged cluster has created one, no later
\* run issues a create-cluster call.
C8_RerunCreatesNoSecondCluster ==
    \A p, q \in Runs :
        /\ p < q /\ pc[p] \in {"done", "fault"} /\ err[p] # "ApiFault"
        /\ CountOp(p, "create_cluster") = 1
        => CountOp(q, "create_cluster") = 0

\* C9: a poll loop that ended without having observed the target state is
\* not followed by the 'is ready' line and the next step of the script.
C9_PollTimeoutDistinguishable ==
    \A p \in Runs :
        /\ pc[p] = "tag" /\ ~Truthy(check[p])
              => LastMsg(p) # "cluster_ready"
        /\ pc[p] = "create_hsm" /\ i[p] > 0 /\ ~Truthy(check[p])
              => LastMsg(p) # "hsm_ready"

\* Every instance of cluster c is ACTIVE: each create has taken effect and
\* each deleted instance has left the listing.
Settled(c) ==
    \A j \in 1..Len(Cluster(c).Hsms) : Cluster(c).Hsms[j].State = "ACTIVE"

\* C10: after the last run has completed without a fault and without the
\* 'must be initialised first' refusal, and its creates and deletes have
\* taken effect, the cluster holds exactly the required number of
\* instances.
C10_Converges ==
    \A p \in Runs :
        /\ pc[p] = "done" /\ Listed(p) /\ LastMsg(p) # "must_init"
        /\ \A q \in Runs : q > p => pc[q] = "idle"
        /\ Settled(cluster_id[p])
        => Len(Cluster(cluster_id[p]).Hsms) = Target

\* The phase of create_cluster a position belongs to: discovery (lines
\* 207-221), cluster creation and its poll loop (line 226), tagging (line
\* 229), reconciliation (line 232), and the end of the run.
Phase(at) ==
    CASE at = "idle" -> 0
      [] at \in {"describe", "list_tags"} -> 1
      [] at \in {"init_create", "poll_cluster"} -> 2
      [] at = "tag" -> 3
      [] at \in {"hsm_describe", "check_uninit", "create_hsm", "poll_hsm",
                 "delete_hsm"} -> 4
      [] OTHER -> 5

\* The phase a changing remote call belongs to.
CallPhase(op) ==
    CASE op = "create_cluster" -> 2
      [] op = "tag_resource" -> 3
      [] OTHER -> 4

\* The run has printed the line msg.
HasLine(p, msg) == \E k \in 1..Len(out[p]) : out[p][k][1] = msg

\* C11: a run never goes back to an earlier phase and its calls are issued
\* in phase order; a create-cluster call is issued only after every listed
\* cluster was asked for its tags and none matched; the tag call is issued
\* only after the cluster poll loop has ended (UNINITIALIZED observed or 20
\* waits done); a create-HSM or delete-HSM call is issued only in the
\* reconciliation phase, after the tag call of a run that created a cluster.
C11_PhaseOrder ==
    /\ [](\A p \in Runs :
            /\ \A j, k \in 1..Len(calls[p]) :
                  j < k => CallPhase(calls[p][j].op) <= CallPhase(calls[p][k].op)
            /\ \A k \in 1..Len(calls[p]) :
                  CallPhase(calls[p][k].op) <= Phase(pc[p])
            /\ Phase(pc[p]) = 1 => calls[p] = <<>>
            /\ pc[p] = "init_create"
                  => /\ calls[p] = <<>>
                     /\ listTagsCalls[p] = Len(response[p])
                     /\ LastMsg(p) = "not_found"
            /\ CountOp(p, "create_cluster") > 0
                  => HasLine(p, "not_found") /\ ~HasLine(p, "found")
            /\ CountOp(p, "tag_resource") > 0
                  => /\ HasLine(p, "cluster_ready")
                     /\ calls[p][1].op = "create_cluster"
            /\ CountOp(p, "create_hsm") + CountOp(p, "delete_hsm") > 0
                  => /\ Phase(pc[p]) >= 4
                     /\ CountOp(p, "create_cluster") > 0
                           => CountOp(p, "tag_resource") > 0)
    /\ [][\A p \in Runs :
            /\ Phase(pc'[p]) >= Phase(pc[p])
            /\ pc[p] = "poll_cluster" /\ pc'[p] = "tag"
                  => \/ Cluster(created_id[p]).State = "UNINITIALIZED"
                     \/ limit_counter[p] = ClusterPollLimit]_vars

\* C11 witness: a run asked two clusters for their tags, found no match,
\* created a cluster, polled it and issued its tag call.
C11_Witness ==
    \E p \in Runs :
        /\ listTagsCalls[p] = 2
        /\ Len(calls[p]) = 2
        /\ calls[p][1].op = "create_cluster"
        /\ calls[p][2].op = "tag_resource"
        /\ HasLine(p, "cluster_ready")

\* ------------------------------------------------------ overlapping runs
\* The command line is run by several users at once.  Each has typed the
\* count "1"; the first listed cluster may carry the searched key with
\* another value, and every cluster carries the searched pair or no tag.
InitOverlap ==
    /\ Init
    /\ mode = "cli"
    /\ cluster_hsm_count = StrArg(1)
    /\ FewTags

\* The runs that have begun and not ended.
UnderWay == {q \in Runs : pc[q] \notin {"idle", "done", "fault"}}

\* A run begins while at most one other is under way (the runs are
\* numbered in the order they begin), and prints its first line (lines
\* 201-206).
StartOverlap(p) ==
    /\ pc[p] = "idle"
    /\ \A q \in Runs : q < p => pc[q] # "idle"
    /\ Cardinality(UnderWay) <= 1
    /\ pc' = [pc EXCEPT ![p] = "describe"]
    /\ out' = [out EXCEPT ![p] = Append(@, Line("checking", None))]
    /\ UNCHANGED <<remote, args, err, locals, calls, listTagsCalls>>

\* From the command line the count is text, so no run reaches the create,
\* poll or delete steps of set_cluster_hsm_count.
NextOverlap ==
    \/ \E p \in Runs : StartOverlap(p)
    \/ \E p \in Runs : create_cluster_describe(p)
    \/ \E p \in Runs : create_cluster_list_tags(p)
    \/ \E p \in Runs : init_cluster_create(p)
    \/ \E p \in Runs : init_cluster_poll(p)
    \/ \E p \in Runs : set_cluster_tags(p)
    \/ \E p \in Runs : set_cluster_hsm_count_describe(p)
    \/ \E p \in Runs : set_cluster_hsm_count_check(p)
    \/ \E c \in Ids(clusters) : ClusterCreated(c)

SpecOverlap == InitOverlap /\ [][NextOverlap]_vars

\* C12: among overlapping runs nothing holds a run back from creating a
\* cluster: a run whose discovery ended with 'not found' can issue its
\* create-cluster call whatever the other runs have done; as long as no
\* cluster carries the pair every run past discovery has printed 'not
\* found' and issues its own create-cluster call; and the clusters created
\* by different runs are different clusters, all of them listed.
C12_OverlapCreatesDuplicates ==
    \A p \in Runs :
        /\ pc[p] = "init_create" => ENABLED init_cluster_create(p)
        /\ TaggedSet = {} /\ Phase(pc[p]) \in 2..4
              => /\ HasLine(p, "not_found")
                 /\ pc[p] # "init_create" => CountOp(p, "create_cluster") = 1
        /\ CountOp(p, "create_cluster") = 1 => Known(created_id[p])
        /\ \A q \in Runs :
              /\ p # q
              /\ CountOp(p, "create_cluster") = 1
              /\ CountOp(q, "create_cluster") = 1
              => created_id[p] # created_id[q]

\* C12 witness: two runs read the same cluster listing, both ended
\* discovery with 'not found', both created a cluster and are polling it,
\* and neither has issued a tag call: two clusters exist for the one tag.
C12_Witness ==
    \E p, q \in Runs :
        /\ p # q
        /\ pc[p] = "poll_cluster" /\ pc[q] = "poll_cluster"
        /\ response[p] = response[q]
        /\ listTagsCalls[p] = 1 /\ listTagsCalls[q] = 1
        /\ created_id[p] # created_id[q]
        /\ Known(created_id[p]) /\ Known(created_id[q])
        /\ CountOp(p, "tag_resource") = 0 /\ CountOp(q, "tag_resource") = 0
        /\ TaggedSet = {}

\* The tag list of every listed cluster.
AllTags == [k \in 1..Len(clusters) |-> clusters[k].Tags]

\* C13: a tag call is issued only right after the run's own create-cluster
\* call; a command-line run started where a cluster carries the pair, and
\* any run that printed 'found', issues no tag call and no create-cluster
\* call, and no step of such a run changes the tag list of any cluster.
C13_TagOnlyOnCreatePath ==
    /\ [](\A p \in Runs :
            /\ \A k \in 1..Len(calls[p]) :
                  calls[p][k].op = "tag_resource"
                  => k > 1 /\ calls[p][k - 1].op = "create_cluster"
            /\ (mode = "cli" /\ TaggedSet # {}) \/ HasLine(p, "found")
                  => /\ CountOp(p, "tag_resource") = 0
                     /\ CountOp(p, "create_cluster") = 0
            /\ mode = "cli" /\ TaggedSet # {} /\ Phase(pc[p]) >= 2
                  => HasLine(p, "found") /\ cluster_id[p] # None)
    /\ [][\A p \in Runs :
            pc'[p] # pc[p] /\ HasLine(p, "found")'
                => AllTags' = AllTags]_vars

\* C13 witness: a run found the second listed cluster (the first carries
\* other tags only, the found one carries the pair as its second tag) and
\* has ended its reconciliation without a call that changes anything.
C13_Witness ==
    \E p \in Runs :
        /\ mode = "cli" /\ pc[p] \in {"done", "fault"}
        /\ HasLine(p, "found") /\ cluster_id[p] = 2
        /\ Len(clusters[2].Tags) = 2
        /\ clusters[2].Tags[2] = <<cluster_tag_key, cluster_tag_value>>
        /\ clusters[1].Tags # <<>>
        /\ calls[p] = <<>>

\* ------------------------------------------------------------- progress
\* One step of the script in run p, once the run has begun.
RunStep(p) ==
    \/ create_cluster_describe(p)
    \/ create_cluster_list_tags(p)
    \/ init_cluster_create(p)
    \/ init_cluster_poll(p)
    \/ set_cluster_tags(p)
    \/ set_cluster_hsm_count_describe(p)
    \/ set_cluster_hsm_count_check(p)
    \/ set_cluster_hsm_count_create(p)
    \/ set_cluster_hsm_count_poll(p)
    \/ set_cluster_hsm_count_delete(p)

\* The process keeps running: every call returns and every sleep ends.
\* Nothing is assumed of the provider, which may leave a cluster or an
\* instance in CREATE_IN_PROGRESS for ever.
SpecLive == Spec /\ \A p \in Runs : WF_vars(RunStep(p))

\* The run has ended, by returning or by an exception.
Ended(p) == pc[p] \in {"done", "fault"}

\* The state of the instance the run is polling, "" when it is not listed.
PolledHsmState(p) ==
    LET hs == Cluster(cluster_id[p]).Hsms IN
    IF \E j \in 1..Len(hs) : hs[j].HsmId = hsm_id[p]
    THEN hs[CHOOSE j \in 1..Len(hs) : hs[j].HsmId = hsm_id[p]].State
    ELSE ""

\* C14: the cluster poll loop waits at most 20 times and the HSM poll loop
\* at most 15 times; a test that reads the target state ends the loop at
\* once, a test that does not is followed by a wait unless the ceiling is
\* reached; and every run that has begun ends (from some point on no run
\* is under way).
C14_PollsBoundedRunsEnd ==
    /\ [](\A p \in Runs :
            /\ limit_counter[p] >= 0
            /\ pc[p] = "poll_cluster" => limit_counter[p] <= ClusterPollLimit
            /\ pc[p] = "poll_hsm" => limit_counter[p] <= HsmPollLimit
            /\ pc[p] \notin {"poll_cluster", "poll_hsm"} => limit_counter[p] = 0)
    /\ [][\A p \in Runs :
            /\ pc[p] = "poll_cluster" /\ <<pc[p], limit_counter[p]>>' #
                                         <<pc[p], limit_counter[p]>>
                  => IF Cluster(created_id[p]).State = "UNINITIALIZED"
                        \/ limit_counter[p] = ClusterPollLimit
                     THEN pc'[p] = "tag"
                     ELSE /\ pc'[p] = "poll_cluster"
                          /\ limit_counter'[p] = limit_counter[p] + 1
            /\ pc[p] = "poll_hsm" /\ <<pc[p], limit_counter[p]>>' #
                                     <<pc[p], limit_counter[p]>>
                  => IF PolledHsmState(p) = "ACTIVE"
                        \/ limit_counter[p] = HsmPollLimit
                     THEN pc'[p] \in {"create_hsm", "done"}
                     ELSE /\ pc'[p] = "poll_hsm"
                          /\ limit_counter'[p] = limit_counter[p] + 1]_vars
    /\ <>[](\A p \in Runs : pc[p] = "idle" \/ Ended(p))

\* C14 witness: a run has ended after its HSM poll loop used up all 15
\* waits on an instance that is still being created.
C14_Witness ==
    \E p \in Runs :
        /\ Ended(p)
        /\ CountOp(p, "create_hsm") >= 1
        /\ PolledHsmState(p) = "CREATE_IN_PROGRESS"
        /\ HasLine(p, "hsm_ready")

\* The number of lines msg the run has printed.
CountLine(p, msg) ==
    Cardinality({k \in 1..Len(out[p]) : out[p][k][1] = msg})

\* The instances the run's create-HSM calls returned, in call order.
CreatedHsms(p) ==
    LET ks == {k \in 1..Len(calls[p]) : calls[p][k].op = "create_hsm"} IN
    [n \in 1..Cardinality(ks) |->
        calls[p][CHOOSE k \in ks :
                    Cardinality({j \in ks : j <= k}) = n].hsm]

\* C15: while a run polls, the instance polled is the one its latest
\* create-HSM call returned and the poll loops of all the earlier ones have
\* ended ('is ready' printed for each, in creation order); a create-HSM
\* call is issued only when the loops of all instances created so far have
\* ended; and a poll loop is left only when the polled instance was read
\* ACTIVE or the 15 waits are used up.
C15_CreatesAreSequential ==
    /\ [](\A p \in Runs :
            /\ pc[p] = "poll_hsm"
                  => /\ CountOp(p, "create_hsm") >= 1
                     /\ hsm_id[p] = Last(CreatedHsms(p))
                     /\ CountLine(p, "hsm_ready") = CountOp(p, "create_hsm") - 1
            /\ pc[p] # "poll_hsm"
                  => CountLine(p, "hsm_ready") = CountOp(p, "create_hsm")
            /\ \A n \in 1..CountLine(p, "hsm_ready") :
                  \E k \in 1..Len(out[p]) :
                      /\ out[p][k] = Line("hsm_ready", CreatedHsms(p)[n])
                      /\ Cardinality({j \in 1..k :
                                         out[p][j][1] = "hsm_ready"}) = n)
    /\ [][\A p \in Runs :
            /\ CountOp(p, "create_hsm")' > CountOp(p, "create_hsm")
                  => /\ pc[p] = "create_hsm" /\ pc'[p] = "poll_hsm"
                     /\ CountOp(p, "create_hsm")' = CountOp(p, "create_hsm") + 1
                     /\ CountLine(p, "hsm_ready") = CountOp(p, "create_hsm")
            /\ pc[p] = "poll_hsm" /\ pc'[p] # "poll_hsm"
                  => \/ PolledHsmState(p) = "ACTIVE"
                     \/ limit_counter[p] = HsmPollLimit]_vars

\* C15 witness: a run polls the second instance it created, after the poll
\* loop of the first one ended.
C15_Witness ==
    \E p \in Runs :
        /\ pc[p] = "poll_hsm"
        /\ CountOp(p, "create_hsm") = 2
        /\ CountLine(p, "hsm_ready") = 1
        /\ limit_counter[p] > 0

\* The instances the run's delete-HSM calls named, in call order.
DeletedHsms(p) ==
    LET ks == {k \in 1..Len(calls[p]) : calls[p][k].op = "delete_hsm"} IN
    [n \in 1..Cardinality(ks) |->
        calls[p][CHOOSE k \in ks :
                    Cardinality({j \in ks : j <= k}) = n]]

\* C16: in a run that took the scale-down branch the delete-HSM calls name,
\* in order, the first entries of the listing read at line 76, for the
\* run's cluster, never more than current - target of them and exactly
\* that many once the run has returned; the ids are pairwise distinct; the
\* listing held by the run still has its length of line 77 (it is not read
\* again); the entries after the prefix are still instances of the cluster
\* and none of them is being deleted.
C16_VictimsAreListingPrefix ==
    \A p \in Runs :
        HasLine(p, "higher")
        => LET d == DeletedHsms(p)
               n == current_hsm_count[p] - Target
           IN
           /\ Len(response[p]) = current_hsm_count[p]
           /\ Len(d) <= n
           /\ pc[p] = "done" => Len(d) = n
           /\ pc[p] = "delete_hsm" => Len(d) = i[p]
           /\ \A k \in 1..Len(d) :
                 /\ d[k].hsm = response[p][k]
                 /\ d[k].cluster = cluster_id[p]
           /\ \A j, k \in 1..Len(d) : j # k => d[j].hsm # d[k].hsm
           /\ \A k \in (n + 1)..Len(response[p]) :
                 LET hs == Cluster(cluster_id[p]).Hsms IN
                 \E j \in 1..Len(hs) :
                     /\ hs[j].HsmId = response[p][k]
                     /\ hs[j].State # "DELETE_IN_PROGRESS"

\* C16 witness: a run is about to delete the second entry of its listing
\* after the first one, deleted by it, has left the provider's listing.
C16_Witness ==
    \E p \in Runs :
        /\ pc[p] = "delete_hsm" /\ i[p] = 1
        /\ Len(response[p]) = 2
        /\ HsmIds(Cluster(cluster_id[p])) = {response[p][2]}

\* What the run keeps of its work: its position, its locals, and the calls
\* it has issued.
RunState(p) ==
    <<pc[p], cluster_id[p], created_id[p], response[p], i[p],
      limit_counter[p], hsm_id[p], current_hsm_count[p], check[p],
      calls[p], listTagsCalls[p], out[p]>>

\* C17: a run hit by an API fault has ended; the failing step changes
\* nothing at the provider and adds no call; afterwards the run takes no
\* step at all, so it issues no further and no compensating call; the
\* cluster and the instances it had created are still there.
C17_FaultEndsRun ==
    /\ [](\A p \in Runs :
            err[p] = "ApiFault"
            => /\ pc[p] = "fault"
               /\ created_id[p] # None => Known(created_id[p])
               /\ \A n \in 1..Len(CreatedHsms(p)) :
                     CreatedHsms(p)[n] \in HsmIds(Cluster(cluster_id[p]))
               /\ CountOp(p, "create_hsm") > 0 => CountOp(p, "delete_hsm") = 0)
    /\ [][\A p \in Runs :
            /\ err[p] # "ApiFault" /\ err'[p] = "ApiFault"
                  => /\ clusters' = clusters
                     /\ calls'[p] = calls[p]
                     /\ listTagsCalls'[p] = listTagsCalls[p]
                     /\ out'[p] = out[p]
            /\ err[p] = "ApiFault"
                  => RunState(p)' = RunState(p) /\ err'[p] = "ApiFault"]_vars

\* C17 witness: a run asked for two instances was hit by a fault after it
\* had created one and finished polling it; that instance is still listed.
C17_Witness ==
    \E p \in Runs :
        /\ err[p] = "ApiFault"
        /\ CountOp(p, "create_hsm") = 1
        /\ CountLine(p, "hsm_ready") = 1
        /\ CreatedHsms(p)[1] \in HsmIds(Cluster(cluster_id[p]))

\* C18: the discovery of a command-line run asks the listed clusters for
\* their tags in listing order, one call each, and never one listed after
\* the first cluster that carries the pair; past discovery the number of
\* list-tags calls is the position of that cluster, whose id the run has
\* selected, or the number of clusters listed when none carries the pair.
C18_FirstMatchStopsDiscovery ==
    \A p \in Runs :
        mode = "cli"
        => LET first == FirstTagged(AllTags) IN
           /\ first # 0 => listTagsCalls[p] <= first
           /\ pc[p] = "list_tags"
                 => /\ listTagsCalls[p] = i[p] - 1
                    /\ \A k \in 1..listTagsCalls[p] : ~Carries(clusters[k].Tags)
           /\ Phase(pc[p]) >= 2
                 => IF first # 0
                    THEN /\ listTagsCalls[p] = first
                         /\ cluster_id[p] = clusters[first].ClusterId
                    ELSE /\ listTagsCalls[p] = Len(response[p])
                         /\ cluster_id[p] = None

\* C18 witness: both listed clusters carry the pair, and a run has ended
\* after one list-tags call, having selected the first.
C18_Witness ==
    \E p \in Runs :
        /\ mode = "cli" /\ pc[p] \in {"done", "fault"}
        /\ TaggedSet = {1, 2}
        /\ listTagsCalls[p] = 1
        /\ cluster_id[p] = clusters[1].ClusterId

\* ------------------------------------------------- a lagging provider
\* An instance being created is missing from the description of its
\* cluster: the provider has not listed it yet or has given the creation
\* up.  The script cannot tell which; the instance leaves the listing.
HsmUnlisted(c, h) ==
    /\ Known(c)
    /\ \E j \in 1..Len(Cluster(c).Hsms) :
          /\ Cluster(c).Hsms[j].HsmId = h
          /\ Cluster(c).Hsms[j].State = "CREATE_IN_PROGRESS"
    /\ clusters' = [clusters EXCEPT ![Pos(c)].Hsms = Without(@, h)]
    /\ UNCHANGED <<nextHsmId, args, pc, err, locals, trace>>

\* set_cluster_hsm_count called directly, against such a provider.
InitLag == Init /\ mode = "direct"

NextLag ==
    \/ \E p \in Runs : Start(p)
    \/ \E p \in Runs : set_cluster_hsm_count_describe(p)
    \/ \E p \in Runs : set_cluster_hsm_count_check(p)
    \/ \E p \in Runs : set_cluster_hsm_count_create(p)
    \/ \E p \in Runs : set_cluster_hsm_count_poll(p)
    \/ \E p \in Runs : set_cluster_hsm_count_delete(p)
    \/ \E c \in Ids(clusters) : \E h \in AllHsmIds : HsmCreated(c, h)
    \/ \E c \in Ids(clusters) : \E h \in AllHsmIds : HsmDeleted(c, h)
    \/ \E c \in Ids(clusters) : \E h \in AllHsmIds : HsmUnlisted(c, h)

SpecLag == InitLag /\ [][NextLag]_vars

\* C19: a test of the HSM poll loop that finds the polled id missing from
\* the description raises nothing and is followed by a wait, like a test
\* that reads a state other than ACTIVE; at the ceiling of 15 waits the
\* loop ends with the 'is ready' line and the run goes on to the next
\* create-HSM call, or returns after the last instance.
C19_UnlistedHsmKeepsWaiting ==
    /\ [](\A p \in Runs : pc[p] = "poll_hsm" => err[p] = "none")
    /\ [][\A p \in Runs :
            /\ pc[p] = "poll_hsm"
            /\ PolledHsmState(p) = ""
            /\ <<pc[p], limit_counter[p]>>' # <<pc[p], limit_counter[p]>>
            => /\ err'[p] = "none"
               /\ IF limit_counter[p] < HsmPollLimit
                  THEN /\ pc'[p] = "poll_hsm"
                       /\ limit_counter'[p] = limit_counter[p] + 1
                       /\ out'[p] = out[p]
                  ELSE /\ pc'[p] = IF i[p] + 1 < Target
                                   THEN "create_hsm" ELSE "done"
                       /\ out'[p] = Append(out[p], Line("hsm_ready", hsm_id[p]))
               /\ calls'[p] = calls[p]]_vars

\* C19 witness: a run polls the second instance it created, which is not
\* listed, with all 15 waits used up; the first instance it created is not
\* listed either, and its poll loop has ended.
C19_Witness ==
    \E p \in Runs :
        /\ pc[p] = "poll_hsm"
        /\ CountOp(p, "create_hsm") = 2
        /\ CountLine(p, "hsm_ready") = 1
        /\ PolledHsmState(p) = ""
        /\ CreatedHsms(p)[1] \notin HsmIds(Cluster(cluster_id[p]))
        /\ limit_counter[p] = HsmPollLimit

====
